---- MODULE Spec2Model ----
(***************************************************************************)
(* A model of the FEN parser (src/src/parser.rs) and of the board display  *)
(* (src/src/display.rs).  A string is a sequence of one-character strings. *)
(* A nom parser result is a record [st, rest, out] with st one of "ok",    *)
(* "err" (nom::Err::Error) and "panic" (a Rust panic: index out of bounds, *)
(* arithmetic overflow, unreachable!, unwrap on None).  An Option is a     *)
(* sequence: None is << >>, Some(x) is << x >>.  Arrays are functions over *)
(* 0..7, as in the source.                                                 *)
(***************************************************************************)
EXTENDS Integers, Sequences, FiniteSets

(***************************************************************************)
(* Bounds of the explored inputs.                                          *)
(***************************************************************************)
MaxRankLen == 3
MaxCastlingLen == 3
MaxEpLen == 2
MaxNumLen == 2

(***************************************************************************)
(* Program constants.                                                      *)
(***************************************************************************)
BoardSize == 8
U8Max == 255
LimbBase == 65536

None == << >>
Some(x) == << x >>

Drop(s, n) == SubSeq(s, n + 1, Len(s))
Take(s, n) == SubSeq(s, 1, n)

\* length of the longest prefix of s made of characters of A
PrefixLen(s, A) ==
    IF \A k \in 1..Len(s) : s[k] \in A
    THEN Len(s)
    ELSE (CHOOSE k \in 1..Len(s) : s[k] \notin A /\ \A j \in 1..(k - 1) : s[j] \in A) - 1

\* let x = e; body: F applied to the value e
Bind(x, F(_)) == F(x)

Ok(rest, out) == [st |-> "ok", rest |-> rest, out |-> out]
Error(input) == [st |-> "err", rest |-> input, out |-> None]
Panic(input) == [st |-> "panic", rest |-> input, out |-> None]

(***************************************************************************)
(* The nom primitives the parser is built from.                            *)
(***************************************************************************)
DigitChars == {"0", "1", "2", "3", "4", "5", "6", "7", "8", "9"}
SpaceChars == {" ", "\t"}

DigitChars10 == << "0", "1", "2", "3", "4", "5", "6", "7", "8", "9" >>

DigitVal(c) ==
    CASE c = "0" -> 0 [] c = "1" -> 1 [] c = "2" -> 2 [] c = "3" -> 3 [] c = "4" -> 4
      [] c = "5" -> 5 [] c = "6" -> 6 [] c = "7" -> 7 [] c = "8" -> 8 [] c = "9" -> 9

\* bytes::complete::take_while1 over a character class
take_while1(input, A) ==
    Bind(PrefixLen(input, A),
         LAMBDA n : IF n = 0 THEN Error(input) ELSE Ok(Drop(input, n), Take(input, n)))

\* character::complete::space1: one or more spaces or tabs
space1(input) == take_while1(input, SpaceChars)

\* character::complete::digit1: the maximal, non-empty run of ASCII digits
digit1(input) == take_while1(input, DigitChars)

\* character::complete::one_of
one_of(input, A) ==
    IF Len(input) > 0 /\ input[1] \in A THEN Ok(Tail(input), input[1]) ELSE Error(input)

\* bytes::complete::tag with a one-character tag
tag(input, c) ==
    IF Len(input) > 0 /\ input[1] = c THEN Ok(Tail(input), << c >>) ELSE Error(input)

(***************************************************************************)
(* str::parse::<u8>: decimal digits, checked against the type's range.     *)
(* The result is << >> on overflow and << value >> otherwise.              *)
(***************************************************************************)
RECURSIVE ParseU8From(_, _)
ParseU8From(s, acc) ==
    IF Len(s) = 0 THEN Some(acc)
    ELSE IF acc * 10 + DigitVal(s[1]) > U8Max THEN None
    ELSE ParseU8From(Tail(s), acc * 10 + DigitVal(s[1]))

ParseU8(s) == ParseU8From(s, 0)

(***************************************************************************)
(* str::parse::<u32>.  A u32 is kept as two 16-bit limbs << hi, lo >>      *)
(* (value = hi * 65536 + lo), so that the whole 32-bit range, and the      *)
(* overflow past it, are computed exactly.                                 *)
(***************************************************************************)
\* faulty variant: the arithmetic wraps instead of being checked
U32AccumulateWrapping(acc, d) ==
    LET low == acc[2] * 10 + d
        high == acc[1] * 10 + (low \div LimbBase)
    IN  Some(<< high % LimbBase, low % LimbBase >>)

U32Accumulate(acc, d) ==
    LET low == acc[2] * 10 + d
        high == acc[1] * 10 + (low \div LimbBase)
    IN  IF high >= LimbBase THEN None ELSE Some(<< high, low % LimbBase >>)

RECURSIVE ParseU32From(_, _)
ParseU32From(s, acc) ==
    IF Len(s) = 0 THEN Some(acc)
    ELSE Bind(U32Accumulate(acc, DigitVal(s[1])),
              LAMBDA v : IF v = None THEN None ELSE ParseU32From(Tail(s), v[1]))

ParseU32(s) == ParseU32From(s, << 0, 0 >>)

(***************************************************************************)
(* parse_piece, parse_empty, parse_rank                                    *)
(***************************************************************************)
Piece(color, kind) == [color |-> color, kind |-> kind]

PieceLetters == {"K", "Q", "R", "B", "N", "P", "k", "q", "r", "b", "n", "p"}

\* the match of parse_piece; << >> stands for the unreachable!() arm
PieceOfChar(c) ==
    CASE c = "K" -> Some(Piece("White", "King"))
      [] c = "Q" -> Some(Piece("White", "Queen"))
      [] c = "R" -> Some(Piece("White", "Rook"))
      [] c = "B" -> Some(Piece("White", "Bishop"))
      [] c = "N" -> Some(Piece("White", "Knight"))
      [] c = "P" -> Some(Piece("White", "Pawn"))
      [] c = "k" -> Some(Piece("Black", "King"))
      [] c = "q" -> Some(Piece("Black", "Queen"))
      [] c = "r" -> Some(Piece("Black", "Rook"))
      [] c = "b" -> Some(Piece("Black", "Bishop"))
      [] c = "n" -> Some(Piece("Black", "Knight"))
      [] c = "p" -> Some(Piece("Black", "Pawn"))
      [] OTHER -> None

parse_piece(input) ==
    Bind(one_of(input, PieceLetters), LAMBDA r :
        IF r.st # "ok" THEN Error(input)
        ELSE Bind(PieceOfChar(r.out), LAMBDA p :
                IF p = None THEN Panic(input)
                ELSE Ok(r.rest, [tag |-> "Piece", piece |-> p[1], count |-> 0])))

parse_empty(input) ==
    Bind(digit1(input), LAMBDA r :
        IF r.st # "ok" THEN Error(input)
        ELSE Bind(ParseU8(r.out), LAMBDA count :
                IF count = None THEN Error(input)
                ELSE Ok(r.rest, [tag |-> "Empty", piece |-> None, count |-> count[1]])))

\* alt((parse_piece, parse_empty))
RankItem(input) ==
    Bind(parse_piece(input), LAMBDA p : IF p.st = "err" THEN parse_empty(input) ELSE p)

\* many1(alt((parse_piece, parse_empty)))
RECURSIVE ManyItems(_, _)
ManyItems(input, acc) ==
    Bind(RankItem(input), LAMBDA r :
        CASE r.st = "panic" -> Panic(input)
          [] r.st = "err" -> IF Len(acc) = 0 THEN Error(input) ELSE Ok(input, acc)
          [] OTHER -> ManyItems(r.rest, Append(acc, r.out)))

EmptyRank == [f \in 0..(BoardSize - 1) |-> None]

\* faulty variant: the Piece arm writes without looking at idx
RankNeverFull(idx) == FALSE

\* the guard of the Piece arm: a piece is refused once the rank is full
RankFull(idx) == idx >= BoardSize

\* the guard of the Empty arm, after the count was added
RunTooLong(idx) == idx > BoardSize

\* faulty variant: a rank that stops short of the eighth file is let through
RankNotOverfull(idx) == idx <= BoardSize

\* the check after the loop
RankComplete(idx) == idx = BoardSize

(***************************************************************************)
(* The loop of parse_rank.  The result also carries the set of indices idx *)
(* at which rank[idx] was written; a write outside 0..7 is a panic.        *)
(***************************************************************************)
RECURSIVE RankLoop(_, _, _, _)
RankLoop(items, rank, idx, writes) ==
    IF Len(items) = 0
    THEN [st |-> IF RankComplete(idx) THEN "ok" ELSE "err", rank |-> rank, writes |-> writes]
    ELSE IF items[1].tag = "Piece"
         THEN IF RankFull(idx)
              THEN [st |-> "err", rank |-> rank, writes |-> writes]
              ELSE IF idx \notin DOMAIN rank
                   THEN [st |-> "panic", rank |-> rank, writes |-> writes \cup {idx}]
                   ELSE RankLoop(Tail(items), [rank EXCEPT ![idx] = Some(items[1].piece)],
                                 idx + 1, writes \cup {idx})
         ELSE IF RunTooLong(idx + items[1].count)
              THEN [st |-> "err", rank |-> rank, writes |-> writes]
              ELSE RankLoop(Tail(items), rank, idx + items[1].count, writes)

\* result: [st, rest, out (the rank), writes]
parse_rank(input) ==
    Bind(ManyItems(input, << >>), LAMBDA m :
        IF m.st # "ok"
        THEN [st |-> m.st, rest |-> input, out |-> EmptyRank, writes |-> {}]
        ELSE Bind(RankLoop(m.out, EmptyRank, 0, {}), LAMBDA l :
                [st |-> l.st, rest |-> IF l.st = "ok" THEN m.rest ELSE input,
                 out |-> l.rank, writes |-> l.writes]))

(***************************************************************************)
(* parse_piece_placement                                                   *)
(***************************************************************************)
\* separated_list1(tag("/"), parse_rank), after its first element
RECURSIVE SeparatedRanks(_, _, _)
SeparatedRanks(input, ranks, writes) ==
    Bind(tag(input, "/"), LAMBDA s :
        IF s.st # "ok"
        THEN [st |-> "ok", rest |-> input, out |-> ranks, writes |-> writes]
        ELSE Bind(parse_rank(s.rest), LAMBDA r :
                CASE r.st = "panic" ->
                       [st |-> "panic", rest |-> input, out |-> ranks,
                        writes |-> writes \cup r.writes]
                  [] r.st = "err" ->
                       [st |-> "ok", rest |-> input, out |-> ranks,
                        writes |-> writes \cup r.writes]
                  [] OTHER ->
                       SeparatedRanks(r.rest, Append(ranks, r.out), writes \cup r.writes)))

\* the first element of the list: separated_list1 fails when it does
FirstRank(input, r) ==
    IF r.st # "ok"
    THEN [st |-> r.st, rest |-> input, out |-> << >>, writes |-> r.writes]
    ELSE [st |-> "ok", rest |-> r.rest, out |-> << r.out >>, writes |-> r.writes]

separated_list1_ranks(input) ==
    Bind(FirstRank(input, parse_rank(input)), LAMBDA first :
        IF first.st # "ok" THEN first
        ELSE SeparatedRanks(first.rest, first.out, first.writes))

EmptyBoard == [r \in 0..(BoardSize - 1) |-> EmptyRank]

\* ranks.len() != 8
WrongRankCount(ranks) == Len(ranks) # BoardSize

\* faulty variant: the ranks are stored in input order
BoardRowUnreversed(i) == i

\* the row written for the i-th parsed rank: board[7 - i]
BoardRow(i) == (BoardSize - 1) - i

(***************************************************************************)
(* The loop over ranks.iter().enumerate(); i counts from 0.  rows is the   *)
(* set of row indices 7 - i used; one outside 0..7 is a panic.             *)
(***************************************************************************)
RECURSIVE BoardLoop(_, _, _, _)
BoardLoop(ranks, i, board, rows) ==
    IF i >= Len(ranks)
    THEN [st |-> "ok", board |-> board, rows |-> rows]
    ELSE IF Cardinality(DOMAIN ranks[i + 1]) # BoardSize
         THEN [st |-> "err", board |-> board, rows |-> rows]
         ELSE Bind(BoardRow(i), LAMBDA row :
                 IF row \notin DOMAIN board
                 THEN [st |-> "panic", board |-> board, rows |-> rows \cup {row}]
                 ELSE BoardLoop(ranks, i + 1, [board EXCEPT ![row] = ranks[i + 1]],
                                rows \cup {row}))

\* result: [st, rest, out (the board), writes, rows]
PlacementFailure(st, input, writes, rows) ==
    [st |-> st, rest |-> input, out |-> EmptyBoard, writes |-> writes, rows |-> rows]

parse_piece_placement(input) ==
    Bind(separated_list1_ranks(input), LAMBDA l :
        IF l.st # "ok" THEN PlacementFailure(l.st, input, l.writes, {})
        ELSE Bind(space1(l.rest), LAMBDA sp :
                IF sp.st # "ok" THEN PlacementFailure("err", input, l.writes, {})
                ELSE IF WrongRankCount(l.out) THEN PlacementFailure("err", input, l.writes, {})
                ELSE Bind(BoardLoop(l.out, 0, EmptyBoard, {}), LAMBDA b :
                        IF b.st # "ok" THEN PlacementFailure(b.st, input, l.writes, b.rows)
                        ELSE [st |-> "ok", rest |-> sp.rest, out |-> b.board,
                              writes |-> l.writes, rows |-> b.rows])))

(***************************************************************************)
(* parse_active_color                                                      *)
(***************************************************************************)
ColorChars == {"w", "b"}

\* the match of parse_active_color; << >> stands for the unreachable!() arm
ColorOfChar(c) ==
    CASE c = "w" -> Some("White")
      [] c = "b" -> Some("Black")
      [] OTHER -> None

parse_active_color(input) ==
    Bind(one_of(input, ColorChars), LAMBDA r :
        IF r.st # "ok" THEN Error(input)
        ELSE Bind(space1(r.rest), LAMBDA sp :
                IF sp.st # "ok" THEN Error(input)
                ELSE Bind(ColorOfChar(r.out), LAMBDA color :
                        IF color = None THEN Panic(input) ELSE Ok(sp.rest, color[1]))))

(***************************************************************************)
(* parse_castling                                                          *)
(***************************************************************************)
CastlingChars == {"-", "K", "Q", "k", "q"}

CastlingRights(wk, wq, bk, bq) ==
    [white_kingside |-> wk, white_queenside |-> wq,
     black_kingside |-> bk, black_queenside |-> bq]

\* CastlingRights::none()
CastlingNone == CastlingRights(FALSE, FALSE, FALSE, FALSE)

\* faulty variant: a '-' met in the loop clears the rights set so far
SetRightDashClears(rights, c) ==
    CASE c = "K" -> [rights EXCEPT !.white_kingside = TRUE]
      [] c = "Q" -> [rights EXCEPT !.white_queenside = TRUE]
      [] c = "k" -> [rights EXCEPT !.black_kingside = TRUE]
      [] c = "q" -> [rights EXCEPT !.black_queenside = TRUE]
      [] OTHER -> CastlingNone

\* the match on c inside the loop
SetRight(rights, c) ==
    CASE c = "K" -> [rights EXCEPT !.white_kingside = TRUE]
      [] c = "Q" -> [rights EXCEPT !.white_queenside = TRUE]
      [] c = "k" -> [rights EXCEPT !.black_kingside = TRUE]
      [] c = "q" -> [rights EXCEPT !.black_queenside = TRUE]
      [] OTHER -> rights

\* faulty variant: repeated characters go unnoticed
NeverDuplicate(seen, c) == FALSE

\* !seen.insert(c): the character was seen before
Duplicate(seen, c) == c \in seen

\* the loop over s.chars(); << >> is the Verify error, << rights >> the result
RECURSIVE CastlingLoop(_, _, _)
CastlingLoop(s, seen, rights) ==
    IF Len(s) = 0 THEN Some(rights)
    ELSE IF Duplicate(seen, s[1]) THEN None
         ELSE CastlingLoop(Tail(s), seen \cup {s[1]}, SetRight(rights, s[1]))

parse_castling(input) ==
    Bind(take_while1(input, CastlingChars), LAMBDA r :
        IF r.st # "ok" THEN Error(input)
        ELSE Bind(space1(r.rest), LAMBDA sp :
                IF sp.st # "ok" THEN Error(input)
                ELSE IF r.out = << "-" >> THEN Ok(sp.rest, CastlingNone)
                ELSE Bind(CastlingLoop(r.out, {}, CastlingNone), LAMBDA rights :
                        IF rights = None THEN Error(sp.rest) ELSE Ok(sp.rest, rights[1]))))

(***************************************************************************)
(* parse_en_passant                                                        *)
(***************************************************************************)
EpFileChars == {"a", "b", "c", "d", "e", "f", "g", "h"}
\* faulty variant: any rank digit of the board is taken
AnyRankChars == {"1", "2", "3", "4", "5", "6", "7", "8"}

EpRankChars == {"3", "6"}

\* c as u8, for the letters the model uses
AsU8(c) ==
    CASE c = "a" -> 97 [] c = "b" -> 98 [] c = "c" -> 99 [] c = "d" -> 100
      [] c = "e" -> 101 [] c = "f" -> 102 [] c = "g" -> 103 [] c = "h" -> 104
      [] c = "i" -> 105 [] c = "-" -> 45 [] OTHER -> 48 + DigitVal(c)

\* char::to_digit(10)
ToDigit(c) == IF c \in DigitChars THEN Some(DigitVal(c)) ELSE None

\* alt((tag("-"), recognize(separated_pair(one_of(files), one_of("36"), tag("")))))
EpSquare(input) ==
    Bind(tag(input, "-"), LAMBDA dash :
        IF dash.st = "ok" THEN dash
        ELSE Bind(one_of(input, EpFileChars), LAMBDA f :
                IF f.st # "ok" THEN Error(input)
                ELSE Bind(one_of(f.rest, EpRankChars), LAMBDA r :
                        IF r.st # "ok" THEN Error(input)
                        ELSE Ok(r.rest, << f.out, r.out >>))))

\* the two unwraps and the two u8 subtractions: << >> when one of them panics
EpCoordinates(ep) ==
    IF Len(ep) < 2 \/ ToDigit(ep[2]) = None
          \/ AsU8(ep[1]) < AsU8("a") \/ DigitVal(ep[2]) < 1
    THEN None
    ELSE Some(<< AsU8(ep[1]) - AsU8("a"), DigitVal(ep[2]) - 1 >>)

parse_en_passant(input) ==
    Bind(EpSquare(input), LAMBDA e :
        IF e.st # "ok" THEN Error(input)
        ELSE Bind(space1(e.rest), LAMBDA sp :
                IF sp.st # "ok" THEN Error(input)
                ELSE IF e.out = << "-" >> THEN Ok(sp.rest, None)
                ELSE Bind(EpCoordinates(e.out), LAMBDA square :
                        IF square = None THEN Panic(input) ELSE Ok(sp.rest, square))))

(***************************************************************************)
(* parse_number                                                            *)
(***************************************************************************)
parse_number(input) ==
    Bind(digit1(input), LAMBDA d :
        IF d.st # "ok" THEN Error(input)
        ELSE Bind(ParseU32(d.out), LAMBDA num :
                IF num = None THEN Error(input)
                ELSE Bind(space1(d.rest), LAMBDA sp :
                        Ok(IF sp.st = "ok" THEN sp.rest ELSE d.rest, num[1]))))

(***************************************************************************)
(* parse_fen                                                               *)
(***************************************************************************)
Stages == << "PiecePlacement", "ActiveColor", "Castling", "EnPassant",
             "HalfmoveClock", "FullmoveNumber" >>

\* the k-th parser of the tuple((...)) in parse_fen, with result [st, rest, out]
StageParser(k, input) ==
    CASE k = 1 -> Bind(parse_piece_placement(input),
                       LAMBDA r : [st |-> r.st, rest |-> r.rest, out |-> r.out])
      [] k = 2 -> parse_active_color(input)
      [] k = 3 -> parse_castling(input)
      [] k = 4 -> parse_en_passant(input)
      [] k = 5 -> parse_number(input)
      [] k = 6 -> parse_number(input)

\* .map_err(|_| FenError::InvalidFormat(..)): the error for a failure in stage k
MapErr(k) == "InvalidFormat"

\* Ok(ChessPosition { .. }) from the six outputs of the tuple
ChessPosition(t) ==
    [pieces |-> t[1], active_color |-> t[2], castling_rights |-> t[3],
     en_passant |-> t[4], halfmove_clock |-> t[5], fullmove_number |-> t[6]]

\* faulty variant: the whole input must be consumed
LeftoverEmpty(rest) == Len(rest) = 0

\* what is left of the input when the tuple is through is not looked at
Leftover(rest) == TRUE

RECURSIVE TupleFrom(_, _, _)
TupleFrom(k, input, outs) ==
    IF k > Len(Stages)
    THEN IF Leftover(input)
         THEN [tag |-> "Ok", position |-> Some(ChessPosition(outs)), error |-> None]
         ELSE [tag |-> "Err", position |-> None, error |-> Some(MapErr(k))]
    ELSE Bind(StageParser(k, input), LAMBDA r :
            CASE r.st = "panic" -> [tag |-> "Panic", position |-> None, error |-> None]
              [] r.st = "err" -> [tag |-> "Err", position |-> None, error |-> Some(MapErr(k))]
              [] OTHER -> TupleFrom(k + 1, r.rest, Append(outs, r.out)))

parse_fen(fen) == TupleFrom(1, fen, << >>)

(***************************************************************************)
(* display_ascii: the glyph of a square, as a Unicode code point, and the  *)
(* lines printed.                                                          *)
(***************************************************************************)
Glyph(square) ==
    IF square = None THEN 183
    ELSE LET piece == square[1]
         IN  CASE piece.kind = "King" -> 9812
               [] piece.kind = "Queen" -> 9813
               [] piece.kind = "Rook" -> 9814
               [] piece.kind = "Bishop" -> 9815
               [] piece.kind = "Knight" -> 9816
               [] piece.kind = "Pawn" -> 9817

\* the k-th printed board line (k = 1 is the top one): rank 8 - k, files a to h
BoardLine(pos, k) ==
    [label |-> BoardSize - k + 1,
     glyphs |-> [f \in 1..BoardSize |-> Glyph(pos.pieces[BoardSize - k][f - 1])]]

\* a u32 printed with {}: its decimal digits, "0" for zero
RECURSIVE U32Decimal(_)
U32Decimal(n) ==
    LET carry == (n[1] % 10) * LimbBase + n[2]
        quotient == << n[1] \div 10, carry \div 10 >>
        digit == << DigitChars10[(carry % 10) + 1] >>
    IN  IF quotient = << 0, 0 >> THEN digit ELSE U32Decimal(quotient) \o digit

CastlingText(rights) ==
    (IF rights.white_kingside THEN << "K" >> ELSE << >>)
    \o (IF rights.white_queenside THEN << "Q" >> ELSE << >>)
    \o (IF rights.black_kingside THEN << "k" >> ELSE << >>)
    \o (IF rights.black_queenside THEN << "q" >> ELSE << >>)

display_ascii(pos) ==
    [board |-> [k \in 1..BoardSize |-> BoardLine(pos, k)],
     active_color |-> pos.active_color,
     castling |-> CastlingText(pos.castling_rights),
     en_passant |-> IF pos.en_passant = None THEN << "-" >>
                    ELSE << pos.en_passant[1][1] + 97, pos.en_passant[1][2] + 1 >>,
     halfmove_clock |-> U32Decimal(pos.halfmove_clock),
     fullmove_number |-> U32Decimal(pos.fullmove_number)]

(***************************************************************************)
(* The inputs explored.  Every input is a variation of one well-formed FEN *)
(* string: one rank group replaced, added or dropped, or one of the other  *)
(* fields, the separators or the trailing text replaced.                   *)
(***************************************************************************)
SeqsUpTo(A, n) == UNION {[1..k -> A] : k \in 0..n}

RECURSIVE Join(_)
Join(groups) ==
    IF Len(groups) = 0 THEN << >>
    ELSE IF Len(groups) = 1 THEN groups[1]
    ELSE groups[1] \o << "/" >> \o Join(Tail(groups))

BaseRanks ==
    << << "r", "1", "b", "q", "k", "b", "1", "r" >>,
       << "p", "p", "1", "p", "1", "p", "p", "p" >>,
       << "2", "n", "1", "p", "n", "2" >>,
       << "2", "p", "5" >>,
       << "2", "B", "1", "P", "3" >>,
       << "2", "N", "2", "N", "2" >>,
       << "P", "P", "P", "P", "1", "P", "P", "P" >>,
       << "R", "1", "B", "Q", "K", "2", "R" >> >>

RankAlphabet == {"K", "p", "0", "3", "4", "8"}
RankStrings ==
    SeqsUpTo(RankAlphabet, MaxRankLen)
    \cup {<< "r", "n", "b", "q", "k", "b", "n", "r" >>, << "P", "P", "P", "P", "P", "P", "P", "P" >>, << "P", "P", "P", "P", "P", "P", "P", "P", "P" >>,
          << "4", "p", "3", "K" >>, << "3", "p", "3", "K" >>, << "2", "5", "6" >>,
          << "K", "0", "7" >>, << "9" >>, << "K", "9" >>,
          << "9", "K" >>, << "X" >>, << "4", "X", "3" >>,
          << "8", "X" >>, << "R", "N", "B", "Q", "K", "B", "N", "X" >>, << "4", "4" >>,
          << "7" >>, << "K", "7" >>, << "7", "p" >>}

Placements ==
    {Join([BaseRanks EXCEPT ![i] = g]) : i \in 1..Len(BaseRanks), g \in RankStrings}
    \cup {Join(Append(BaseRanks, g)) : g \in RankStrings}
    \cup {Join(Take(BaseRanks, n)) : n \in 1..Len(BaseRanks)}

Separators == {<< " " >>, << " ", " " >>, << "\t" >>, << >>}

Colors == {<< "w" >>, << "b" >>, << "x" >>, << "W" >>, << "w", "b" >>, << >>}

CastlingAlphabet == {"-", "K", "Q", "k", "q", "X"}
CastlingFields ==
    SeqsUpTo(CastlingAlphabet, MaxCastlingLen)
    \cup {<< "K", "Q", "k", "q" >>, << "K", "Q", "k", "q", "k" >>, << "K", "Q", "X", "k", "q" >>, << "q", "k", "Q", "K" >>,
          << "k", "-", "Q", "q", "K" >>, << "-", "K", "Q", "k", "q" >>, << "K", "Q", "-", "k", "-" >>}

EpAlphabet == {"-", "a", "c", "e", "h", "i", "0", "3", "4", "6", "9"}
EpFields ==
    SeqsUpTo(EpAlphabet, MaxEpLen)
    \cup {<< "c", "6", "3" >>, << "b", "3" >>, << "d", "6" >>, << "f", "3" >>, << "g", "6" >>, << "e", "3", "6" >>}

NumAlphabet == {"0", "1", "9", "a", "-"}
NumFields ==
    SeqsUpTo(NumAlphabet, MaxNumLen)
    \cup {<< "4", "2" >>,
          << "5", "0" >>,
          << "0", "0", "7" >>,
          << "6", "5", "5", "3", "5" >>,
          << "6", "5", "5", "3", "6" >>,
          << "4", "2", "9", "4", "9", "6", "7", "2", "9", "5" >>,
          << "4", "2", "9", "4", "9", "6", "7", "2", "9", "6" >>,
          << "4", "2", "9", "4", "9", "6", "7", "3", "0", "0" >>,
          << "0", "4", "2", "9", "4", "9", "6", "7", "2", "9", "5" >>,
          << "4", "2", "9", "4", "9", "6", "7", "2", "9", "5", "0" >>,
          << "9", "9", "9", "9", "9", "9", "9", "9", "9", "9", "9" >>,
          << "4", "2", "9", "4", "9", "6", "7", "2", "9", "5", "x" >>,
          << "5", "x" >>,
          << "+", "1" >>}

Trailers == {<< >>, << " " >>, << " ", "x" >>, << "x" >>, << " ", "7", " ", "8" >>, << "\t", "-" >>}

Fen(placement, sep, color, castling, ep, half, full, trailer) ==
    placement \o sep \o color \o sep \o castling \o sep \o ep \o sep
              \o half \o sep \o full \o trailer

BasePlacement == Join(BaseRanks)
BaseCastling == << "K", "Q", "k", "q" >>

Inputs ==
    {Fen(p, << " " >>, << "w" >>, BaseCastling, << "-" >>, << "0" >>, << "1" >>, << >>)
        : p \in Placements}
    \cup {Fen(BasePlacement, s, c, BaseCastling, << "-" >>, << "4" >>, << "6" >>, << >>)
        : s \in Separators, c \in Colors}
    \cup {Fen(BasePlacement, << " " >>, << "b" >>, c, << "-" >>, << "0" >>, << "1" >>, t)
        : c \in CastlingFields, t \in {<< >>, << " ", "x" >>}}
    \cup {Fen(BasePlacement, << " " >>, << "w" >>, << "-" >>, e, << "0" >>, << "1" >>, << >>)
        : e \in EpFields}
    \cup {Fen(BasePlacement, << " " >>, << "w" >>, << "-" >>, << "c", "6" >>, h, f, t)
        : h \in NumFields, f \in {<< "1" >>, << "0" >>}, t \in Trailers}
    \cup {Fen(BasePlacement, << " " >>, << "w" >>, << "-" >>, << "-" >>, h, f, t)
        : h \in {<< "0" >>, << "9", "9" >>}, f \in NumFields, t \in Trailers}

(***************************************************************************)
(* The program: main hands its argument to parse_fen, which runs the six   *)
(* parsers of its tuple in order on what the one before left over, and     *)
(* prints the position when there is one.                                  *)
(***************************************************************************)
VARIABLES
    fen,          \* the argument of parse_fen
    rest,         \* the input not yet consumed
    given,        \* the input the stage that ran last was given
    pc,           \* the stage to run next, or how the program ended
    outs,         \* the outputs of the stages passed
    position,     \* Some(ChessPosition) once parse_fen returned Ok
    error,        \* Some(FenError) once parse_fen returned Err
    failed,       \* the stage whose parser failed, 0 if none did
    rank_writes,  \* the indices idx of the writes rank[idx] in parse_rank
    board_rows,   \* the indices 7 - i of the writes board[7 - i]
    screen        \* Some(what display_ascii printed)

vars == << fen, rest, given, pc, outs, position, error, failed, rank_writes, board_rows, screen >>

Init ==
    /\ fen \in Inputs
    /\ rest = fen
    /\ given = << >>
    /\ pc = Stages[1]
    /\ outs = << >>
    /\ position = None
    /\ error = None
    /\ failed = 0
    /\ rank_writes = {}
    /\ board_rows = {}
    /\ screen = None

\* where the tuple goes after stage k
AfterStage(k) == IF k = Len(Stages) THEN "Assemble" ELSE Stages[k + 1]

\* stage k of the tuple, applied to the remaining input
RunStage(k, r) ==
    /\ pc = Stages[k]
    /\ given' = rest
    /\ rest' = IF r.st = "ok" THEN r.rest ELSE rest
    /\ outs' = IF r.st = "ok" THEN Append(outs, r.out) ELSE outs
    /\ failed' = IF r.st = "err" THEN k ELSE failed
    /\ pc' = CASE r.st = "ok" -> AfterStage(k)
               [] r.st = "err" -> "Failed"
               [] OTHER -> "Panic"
    /\ UNCHANGED << fen, position, error, screen >>

ParsePiecePlacement ==
    /\ RunStage(1, StageParser(1, rest))
    /\ rank_writes' = rank_writes \cup parse_piece_placement(rest).writes
    /\ board_rows' = board_rows \cup parse_piece_placement(rest).rows

ParseActiveColor ==
    /\ RunStage(2, parse_active_color(rest))
    /\ UNCHANGED << rank_writes, board_rows >>

ParseCastling ==
    /\ RunStage(3, parse_castling(rest))
    /\ UNCHANGED << rank_writes, board_rows >>

ParseEnPassant ==
    /\ RunStage(4, parse_en_passant(rest))
    /\ UNCHANGED << rank_writes, board_rows >>

ParseHalfmoveClock ==
    /\ RunStage(5, parse_number(rest))
    /\ UNCHANGED << rank_writes, board_rows >>

ParseFullmoveNumber ==
    /\ RunStage(6, parse_number(rest))
    /\ UNCHANGED << rank_writes, board_rows >>

\* the tuple succeeded: Ok(ChessPosition { .. })
Assemble ==
    /\ pc = "Assemble"
    /\ IF Leftover(rest)
       THEN /\ position' = Some(ChessPosition(outs))
            /\ pc' = "Ok"
            /\ UNCHANGED << error, failed >>
       ELSE /\ error' = Some(MapErr(Len(Stages)))
            /\ failed' = Len(Stages)
            /\ pc' = "Err"
            /\ UNCHANGED position
    /\ UNCHANGED << fen, rest, given, outs, rank_writes, board_rows, screen >>

\* the tuple failed: map_err, and parse_fen returns Err
ReturnErr ==
    /\ pc = "Failed"
    /\ error' = Some(MapErr(failed))
    /\ pc' = "Err"
    /\ UNCHANGED << fen, rest, given, outs, position, failed, rank_writes, board_rows, screen >>

\* main: position.display_ascii()
Display ==
    /\ pc = "Ok"
    /\ screen' = Some(display_ascii(position[1]))
    /\ pc' = "Displayed"
    /\ UNCHANGED << fen, rest, given, outs, position, error, failed, rank_writes, board_rows >>

Next ==
    \/ ParsePiecePlacement
    \/ ParseActiveColor
    \/ ParseCastling
    \/ ParseEnPassant
    \/ ParseHalfmoveClock
    \/ ParseFullmoveNumber
    \/ Assemble
    \/ ReturnErr
    \/ Display

Spec == Init /\ [][Next]_vars

\* the state machine and the function agree on every input
StagesAgreeWithParseFen ==
    /\ pc \in {"Ok", "Displayed"} =>
          parse_fen(fen) = [tag |-> "Ok", position |-> position, error |-> None]
    /\ pc = "Err" => parse_fen(fen) = [tag |-> "Err", position |-> None, error |-> error]
    /\ pc = "Panic" => parse_fen(fen).tag = "Panic"

(***************************************************************************)
(* What the claims speak of, read off the input text independently of the  *)
(* parser: fields, rank groups, and the squares a group describes.         *)
(***************************************************************************)
Accepted == pc \in {"Ok", "Displayed"}

\* stage k has just run, and succeeded / failed
StagePassed(k) == pc = AfterStage(k) /\ Len(outs) = k
StageFailed(k) == pc \in {"Failed", "Err"} /\ failed = k

\* the text up to the first space or tab
FieldOf(s) ==
    IF \E k \in 1..Len(s) : s[k] \in SpaceChars
    THEN Take(s, (CHOOSE k \in 1..Len(s) :
                     s[k] \in SpaceChars /\ \A j \in 1..(k - 1) : s[j] \notin SpaceChars) - 1)
    ELSE s

\* the field is followed by white space
FieldEnds(s) == Len(FieldOf(s)) < Len(s)

RECURSIVE Groups(_)
Groups(s) ==
    IF \E k \in 1..Len(s) : s[k] = "/"
    THEN LET cut == CHOOSE k \in 1..Len(s) : s[k] = "/" /\ \A j \in 1..(k - 1) : s[j] # "/"
         IN  << Take(s, cut - 1) >> \o Groups(Drop(s, cut))
    ELSE << s >>

Count(s, c) == Cardinality({k \in 1..Len(s) : s[k] = c})

UpperLetters == << "K", "Q", "R", "B", "N", "P" >>
LowerLetters == << "k", "q", "r", "b", "n", "p" >>
Kinds == << "King", "Queen", "Rook", "Bishop", "Knight", "Pawn" >>

Denoted(c) ==
    IF \E k \in 1..Len(Kinds) : UpperLetters[k] = c
    THEN Piece("White", Kinds[CHOOSE k \in 1..Len(Kinds) : UpperLetters[k] = c])
    ELSE Piece("Black", Kinds[CHOOSE k \in 1..Len(Kinds) : LowerLetters[k] = c])

\* the squares of a group, file a first: a letter is one occupied square, a
\* digit d is d empty squares
RECURSIVE Squares(_)
Squares(g) ==
    IF Len(g) = 0 THEN << >>
    ELSE (IF g[1] \in DigitChars THEN [k \in 1..DigitVal(g[1]) |-> None]
          ELSE IF g[1] \in PieceLetters THEN << Some(Denoted(g[1])) >>
          ELSE << "?" >>) \o Squares(Tail(g))

\* piece letters plus the sum of the digits, each digit on its own
RECURSIVE DigitTotal(_)
DigitTotal(g) ==
    IF Len(g) = 0 THEN 0
    ELSE (IF g[1] \in DigitChars THEN DigitVal(g[1])
          ELSE IF g[1] \in PieceLetters THEN 1 ELSE 0) + DigitTotal(Tail(g))

\* piece letters plus the decimal values of the maximal digit runs
RECURSIVE RunTotal(_, _)
RunTotal(g, run) ==
    IF Len(g) = 0 THEN run
    ELSE IF g[1] \in DigitChars THEN RunTotal(Tail(g), run * 10 + DigitVal(g[1]))
    ELSE run + (IF g[1] \in PieceLetters THEN 1 ELSE 0) + RunTotal(Tail(g), 0)

PlacementGroups == Groups(FieldOf(fen))

FieldErrors ==
    << "InvalidPiecePlacement", "InvalidActiveColor", "InvalidCastlingRights",
       "InvalidEnPassant", "InvalidHalfmoveClock", "InvalidFullmoveNumber" >>

C2_ErrorNamesTheField ==
    pc = "Err" => error = Some(FieldErrors[failed])

(***************************************************************************)
(* C3: parse_fen returns an error, and no position, for every input whose  *)
(* placement field is not exactly 8 groups or has a group whose piece      *)
(* letters plus empty-run counts do not total 8 files (the runs counted    *)
(* digit by digit, or as whole numbers: either way).                       *)
(***************************************************************************)
MisshapenPlacement ==
    LET groups == PlacementGroups
    IN  \/ Len(groups) # BoardSize
        \/ \E i \in 1..Len(groups) :
              \/ DigitTotal(groups[i]) # BoardSize
              \/ RunTotal(groups[i], 0) # BoardSize

C3_MisshapenPlacementFails ==
    MisshapenPlacement =>
        /\ pc \in {"PiecePlacement", "Failed", "Err"}
        /\ position = None
        /\ outs = << >>
        /\ pc = "Err" => error # None

C3_Witness ==
    /\ pc = "Err"
    /\ error # None
    /\ Len(PlacementGroups) = BoardSize
    /\ PlacementGroups[BoardSize] = << "K", "4" >>

(***************************************************************************)
(* C4: in the placement field every digit is its own run-length token and  *)
(* must be one of 1..8: a rank's total is its piece letters plus the sum   *)
(* of its digits, so a placement with a digit 0 or 9 is rejected and two   *)
(* adjacent digits are two runs ("44" totals 8).  That is, the placement   *)
(* parser succeeds exactly on 8 groups of piece letters and digits 1..8    *)
(* whose digit totals are 8.                                               *)
(***************************************************************************)
RunDigits == {"1", "2", "3", "4", "5", "6", "7", "8"}

DigitWisePlacement ==
    /\ FieldEnds(fen)
    /\ Len(PlacementGroups) = BoardSize
    /\ \A i \in 1..Len(PlacementGroups) :
          /\ \A k \in 1..Len(PlacementGroups[i]) :
                PlacementGroups[i][k] \in PieceLetters \cup RunDigits
          /\ DigitTotal(PlacementGroups[i]) = BoardSize

C4_EveryDigitIsARun ==
    pc # "PiecePlacement" => (Len(outs) >= 1 <=> DigitWisePlacement)

(***************************************************************************)
(* C5: the castling field "-" yields all four rights false; a field in     *)
(* which one of K, Q, k, q occurs more than once, or with a character      *)
(* outside {-,K,Q,k,q}, makes parse_fen fail; otherwise each right is true *)
(* exactly when its letter K, Q, k, q occurs in the field.                 *)
(***************************************************************************)
CastlingLetters == {"K", "Q", "k", "q"}

CastlingField == FieldOf(given)

C5_CastlingRights ==
    /\ (StagePassed(3) \/ StageFailed(3)) =>
          /\ (CastlingField = << "-" >> /\ FieldEnds(given)) =>
                StagePassed(3) /\ outs[3] = CastlingNone
          /\ ((\E c \in CastlingLetters : Count(CastlingField, c) > 1)
                \/ (\E k \in 1..Len(CastlingField) : CastlingField[k] \notin CastlingChars)) =>
                StageFailed(3)
          /\ StagePassed(3) =>
                outs[3] = CastlingRights(Count(CastlingField, "K") > 0,
                                         Count(CastlingField, "Q") > 0,
                                         Count(CastlingField, "k") > 0,
                                         Count(CastlingField, "q") > 0)
    /\ Accepted => position[1].castling_rights = outs[3]

C5_Witness ==
    /\ StagePassed(3)
    /\ CastlingField = << "K", "Q", "k" >>
    /\ outs[3] = CastlingRights(TRUE, TRUE, TRUE, FALSE)

(***************************************************************************)
(* C6: the en-passant field "-" yields None; a file letter a-h followed by *)
(* the digit 3 or 6 yields Some((letter - 'a', digit - 1)); every other    *)
(* content makes parse_fen fail.  So an accepted position has en_passant   *)
(* None or a pair with file in 0..7 and rank in {2, 5}.                    *)
(***************************************************************************)
FileLetters == << "a", "b", "c", "d", "e", "f", "g", "h" >>

EpField == FieldOf(given)

EpWellFormed ==
    /\ Len(EpField) = 2
    /\ \E k \in 1..Len(FileLetters) : FileLetters[k] = EpField[1]
    /\ EpField[2] \in {"3", "6"}

EpDenoted ==
    << (CHOOSE k \in 1..Len(FileLetters) : FileLetters[k] = EpField[1]) - 1,
       DigitVal(EpField[2]) - 1 >>

C6_EnPassant ==
    /\ (StagePassed(4) \/ StageFailed(4)) =>
          /\ (EpField = << "-" >> /\ FieldEnds(given)) =>
                StagePassed(4) /\ outs[4] = None
          /\ (EpWellFormed /\ FieldEnds(given)) =>
                StagePassed(4) /\ outs[4] = Some(EpDenoted)
          /\ (EpField # << "-" >> /\ ~EpWellFormed) => StageFailed(4)
    /\ Accepted =>
          /\ position[1].en_passant = outs[4]
          /\ \/ position[1].en_passant = None
             \/ /\ position[1].en_passant[1][1] \in 0..7
                /\ position[1].en_passant[1][2] \in {2, 5}

C6_Witness ==
    /\ StagePassed(4)
    /\ EpField = << "c", "6" >>
    /\ outs[4] = Some(<< 2, 5 >>)

(***************************************************************************)
(* C7: each counter is accepted exactly when the remaining input starts    *)
(* with a non-empty run of decimal digits whose value, over the maximal    *)
(* run, is at most 4294967295; the stored counter is that value; 0 is      *)
(* accepted; a field that starts with a non-digit, is empty or overflows   *)
(* fails rather than wrap.                                                 *)
(***************************************************************************)
U32MaxDecimal == << "4", "2", "9", "4", "9", "6", "7", "2", "9", "5" >>

RECURSIVE StripZeros(_)
StripZeros(s) ==
    IF Len(s) > 1 /\ s[1] = "0" THEN StripZeros(Tail(s)) ELSE s

\* a and b have the same length: a is at most b as a decimal number
DecimalAtMost(a, b) ==
    \/ a = b
    \/ \E k \in 1..Len(a) :
          /\ DigitVal(a[k]) < DigitVal(b[k])
          /\ \A j \in 1..(k - 1) : a[j] = b[j]

DigitRun(s) ==
    IF \E k \in 1..Len(s) : s[k] \notin DigitChars
    THEN Take(s, (CHOOSE k \in 1..Len(s) :
                     s[k] \notin DigitChars /\ \A j \in 1..(k - 1) : s[j] \in DigitChars) - 1)
    ELSE s

FitsU32(run) ==
    /\ Len(run) > 0
    /\ \/ Len(StripZeros(run)) < Len(U32MaxDecimal)
       \/ /\ Len(StripZeros(run)) = Len(U32MaxDecimal)
          /\ DecimalAtMost(StripZeros(run), U32MaxDecimal)

C7_Counters ==
    /\ \A k \in {5, 6} :
          /\ (StagePassed(k) \/ StageFailed(k)) =>
                (StagePassed(k) <=> FitsU32(DigitRun(given)))
          /\ StagePassed(k) => U32Decimal(outs[k]) = StripZeros(DigitRun(given))
          /\ (StagePassed(k) /\ DigitRun(given) = << "0" >>) => outs[k] = << 0, 0 >>
    /\ Accepted =>
          /\ position[1].halfmove_clock = outs[5]
          /\ position[1].fullmove_number = outs[6]

C7_Witness ==
    /\ StagePassed(5)
    /\ DigitRun(given) = U32MaxDecimal
    /\ outs[5] = << 65535, 65535 >>

(***************************************************************************)
(* C8: trailing input after the fullmove number is ignored: if parse_fen   *)
(* accepts s with result P then, for every t, it accepts s followed by a   *)
(* space and t, with a position equal to P.                                *)
(***************************************************************************)
MaxSuffixLen == 2
SuffixAlphabet == {"7", " ", "x"}
Suffixes == SeqsUpTo(SuffixAlphabet, MaxSuffixLen)

C8_TrailingInputIgnored ==
    pc = "Ok" =>
        \A t \in Suffixes :
            parse_fen(fen \o << " " >> \o t)
                = [tag |-> "Ok", position |-> position, error |-> None]

C8_Witness ==
    /\ pc = "Ok"
    /\ rest = << >>
    /\ fen[Len(fen)] \in DigitChars
    /\ parse_fen(fen \o << " ", "7", "x" >>).position = position

(***************************************************************************)
(* C9: display_ascii prints each occupied square with a glyph determined   *)
(* by the piece's color and kind: the 12 combinations have 12 pairwise     *)
(* distinct glyphs, all distinct from the empty-square glyph.              *)
(***************************************************************************)
C9_GlyphsTellSquaresApart ==
    pc = "Displayed" =>
        \A k1, k2 \in 1..BoardSize, f1, f2 \in 1..BoardSize :
            position[1].pieces[BoardSize - k1][f1 - 1] # position[1].pieces[BoardSize - k2][f2 - 1]
                => screen[1].board[k1].glyphs[f1] # screen[1].board[k2].glyphs[f2]

(***************************************************************************)
(* C10: no input drives the parser into an internal invariant violation:   *)
(* every write rank[idx] has idx in 0..7, board[7 - i] is written only     *)
(* with 7 - i in 0..7, no unreachable or unwrap branch is taken (no        *)
(* panic), and parse_fen always ends in Ok or Err.                         *)
(***************************************************************************)
C10_NoInternalViolation ==
    /\ pc # "Panic"
    /\ rank_writes \subseteq 0..(BoardSize - 1)
    /\ board_rows \subseteq 0..(BoardSize - 1)
    /\ pc \in {"Ok", "Err", "Displayed", "Assemble", "Failed"}
             \cup {Stages[k] : k \in 1..Len(Stages)}
    /\ pc \in {"Ok", "Displayed"} <=> position # None
    /\ pc = "Err" <=> error # None

C10_Witness ==
    /\ pc = "Err"
    /\ failed = 1
    /\ Len(PlacementGroups) = BoardSize
    /\ PlacementGroups[2] = << "8", "K" >>
    /\ rank_writes # {}

(***************************************************************************)
(* C11: parse_castling requires neither the canonical letter order nor     *)
(* that '-' stand alone: every castling field of pairwise distinct         *)
(* characters from {-,K,Q,k,q} is accepted and sets exactly the flags      *)
(* whose letters occur, '-' contributing no flag ("qK", "K-"); the only    *)
(* rejected fields over that alphabet repeat a character ("--" included).  *)
(***************************************************************************)
\* a non-empty field over the castling alphabet, followed by white space
OverCastlingAlphabet(field) ==
    /\ Len(field) > 0
    /\ \A k \in 1..Len(field) : field[k] \in {"-", "K", "Q", "k", "q"}

PairwiseDistinct(field) ==
    \A i, j \in 1..Len(field) : i # j => field[i] # field[j]

C11_CastlingOrderAndDashFree ==
    ((StagePassed(3) \/ StageFailed(3))
        /\ OverCastlingAlphabet(CastlingField) /\ FieldEnds(given)) =>
        /\ StagePassed(3) <=> PairwiseDistinct(CastlingField)
        /\ StagePassed(3) =>
              /\ outs[3].white_kingside <=> (\E k \in 1..Len(CastlingField) : CastlingField[k] = "K")
              /\ outs[3].white_queenside <=> (\E k \in 1..Len(CastlingField) : CastlingField[k] = "Q")
              /\ outs[3].black_kingside <=> (\E k \in 1..Len(CastlingField) : CastlingField[k] = "k")
              /\ outs[3].black_queenside <=> (\E k \in 1..Len(CastlingField) : CastlingField[k] = "q")

C11_Witness ==
    /\ StagePassed(3)
    /\ CastlingField = << "K", "-" >>
    /\ outs[3] = CastlingRights(TRUE, FALSE, FALSE, FALSE)

====
